---- MODULE Spec2Model ----
(***************************************************************************)
(* Model of src/src/componentContainer.js: the ComponentContainer mixin.   *)
(* A host owns an ordered collection `_components` of component instances; *)
(* the mixin attaches, detaches, looks up and (de)serializes them.         *)
(*                                                                         *)
(* Every handler of the mixin is a pure operator over a "world" record     *)
(* (the heap: hosts' fields and components' fields) so that handlers that  *)
(* call other handlers (removeAllComponents, configureComponents) are      *)
(* modelled by composition.  An action applies one handler to the current  *)
(* heap and commits the result, together with a record `last` of the call  *)
(* (its arguments, its outcome, the collaborators it invoked).             *)
(***************************************************************************)
EXTENDS Integers, Sequences, FiniteSets, TLC

\* ---------------------------------------------------------------- bounds
MaxComp == 4        \* component instances that can ever exist
MaxVal == 1         \* serialized payloads are 0..MaxVal
MaxEntries == 2     \* length of an info.components written by hand
MaxCalls == 3       \* calls of the mixin's methods in one behaviour

\* ------------------------------------------------------------- universe
Hosts == {"h1", "h2"}
Comps == 1..MaxComp
NoComponent == 0    \* a null/undefined component reference (falsy)

\* component classes that exist in the program
ComponentClasses == {"Transform", "Light", "Script"}
\* class names that can be written in a serialized info
ClassNames == ComponentClasses \cup {"Ghost"}

\* LS.Components: the registry of component classes by name
LSComponents == {"Transform", "Light", "Script"}

\* capabilities of the component classes (all optional in the contract)
HasSerialize(cls) == cls \in {"Transform", "Light"}
HasOnAddedToNode(cls) == cls \in {"Transform", "Light"}
HasOnRemovedFromNode(cls) == cls \in {"Transform", "Light"}

\* the serialized data of a component: a payload and an optional uid (0: none)
NoData == [val |-> 0, uid |-> 0]

\* components created by the application before the first call:
\* new Light({val: MaxVal}) and new Script()
ExternalComponents ==
    <<[cls |-> "Light", data |-> [val |-> MaxVal, uid |-> 0]],
      [cls |-> "Script", data |-> NoData]>>

VARIABLES
    components,      \* host -> its _components array
    has_components,  \* host -> whether _components is defined
    transform,       \* host -> its transform field (NoComponent: undefined)
    class_name,      \* component -> its class ("none": not constructed)
    root,            \* component -> _root: a host, "null" or "undefined"
    uid,             \* component -> own property uid (0: no own property)
    data,            \* component -> what serialize() returns
    last_uid,        \* state of LS.generateUId
    o,               \* the object serializeComponents writes into
    calls,           \* number of calls made so far
    last             \* the last call: arguments, outcome, collaborators invoked

vars == <<components, has_components, transform, class_name, root, uid, data,
          last_uid, o, calls, last>>

\* ------------------------------------------------------------ the heap
World ==
    [components |-> components, has_components |-> has_components,
     transform |-> transform, class_name |-> class_name, root |-> root,
     uid |-> uid, data |-> data, last_uid |-> last_uid,
     log |-> <<>>, result |-> "none", ret |-> NoComponent]

Event(name, h, c) == [ev |-> name, host |-> h, comp |-> c]

\* Array.prototype.indexOf: zero-based position of the first occurrence, or -1
IndexOf(s, c) ==
    IF \E i \in 1..Len(s) : s[i] = c
    THEN (CHOOSE i \in 1..Len(s) : s[i] = c /\ \A j \in 1..(i - 1) : s[j] # c) - 1
    ELSE -1

\* (mutation) splice(0, 1): always the first element
SpliceFirst(s, pos) == Tail(s)

\* Array.prototype.splice(pos, 1): removes the element at zero-based pos
Splice(s, pos) ==
    [i \in 1..(Len(s) - 1) |-> IF i <= pos THEN s[i] ELSE s[i + 1]]

\* LS.generateUId("COMP-"): a value never returned before
generateUId(w) == w.last_uid + 1

\* (mutation) the null check comes after _components is created
consoleErrorLate(w, h) ==
    [w EXCEPT !.log = Append(@, Event("console.error", h, NoComponent)),
              !.has_components[h] = TRUE,
              !.result = "error", !.ret = NoComponent]

\* console.error(...): the error is reported and the call returns undefined
consoleError(w, h) ==
    [w EXCEPT !.log = Append(@, Event("console.error", h, NoComponent)),
              !.result = "error", !.ret = NoComponent]

\* ----------------------------------------------------------- addComponent
\* link component with container: _root, then the onAddedToNode hook
link(w, h, c) ==
    [w EXCEPT !.root[c] = h,
              !.log = IF HasOnAddedToNode(w.class_name[c])
                      THEN Append(@, Event("onAddedToNode", h, c))
                      ELSE @]

\* _components is defined on the first attachment
defineComponents(w, h) ==
    IF ~w.has_components[h]
    THEN [w EXCEPT !.has_components[h] = TRUE, !.components[h] = <<>>]
    ELSE w

\* (mutation) the duplicate check is left out
neverInserted(w, h, c) == FALSE

\* this._components.indexOf(component) != -1
alreadyInserted(w, h, c) == IndexOf(w.components[h], c) # -1

\* (mutation) unshift instead of push
unshift(s, c) == <<c>> \o s

\* this._components.push(component)
push(s, c) == Append(s, c)

\* (mutation) a uid is generated on every attachment
defineUIdAlways(w, h, c) ==
    [w EXCEPT !.uid[c] = w.last_uid + 1,
              !.last_uid = w.last_uid + 1,
              !.log = Append(@, Event("generateUId", h, c))]

\* the uid is defined, once, as a non-writable own property
defineUId(w, h, c) ==
    IF w.uid[c] = 0
    THEN [w EXCEPT !.uid[c] = generateUId(w),
                   !.last_uid = generateUId(w),
                   !.log = Append(@, Event("generateUId", h, c))]
    ELSE w

addComponent(w, h, c) ==
    IF c = NoComponent
    THEN consoleError(w, h)
    ELSE
      LET w1 == defineComponents(link(w, h, c), h)
      IN IF alreadyInserted(w1, h, c)
         THEN [w1 EXCEPT !.result = "throw", !.ret = NoComponent]
         ELSE [defineUId([w1 EXCEPT !.components[h] = push(@, c)], h, c)
                 EXCEPT !.result = "ok", !.ret = c]

\* -------------------------------------------------------- removeComponent
\* unlink component with container: _root, the onRemovedFromNode hook, and
\* LEvent.unbindAll(this, component)
unlink(w, h, c) ==
    [w EXCEPT !.root[c] = "null",
              !.log = (IF HasOnRemovedFromNode(w.class_name[c])
                       THEN Append(@, Event("onRemovedFromNode", h, c))
                       ELSE @) \o <<Event("unbindAll", h, c)>>]

removeComponent(w, h, c) ==
    IF c = NoComponent
    THEN consoleError(w, h)
    ELSE
      LET w1 == unlink(w, h, c)
      IN IF ~w1.has_components[h]
         THEN [w1 EXCEPT !.result = "throw", !.ret = NoComponent]
         ELSE
           LET pos == IndexOf(w1.components[h], c)
           IN [w1 EXCEPT !.components[h] = IF pos # -1 THEN Splice(@, pos) ELSE @,
                         !.result = "ok", !.ret = NoComponent]

\* ---------------------------------------------------- removeAllComponents
RECURSIVE removeAllLoop(_, _)
removeAllLoop(w, h) ==
    IF Len(w.components[h]) = 0
    THEN [w EXCEPT !.result = "ok", !.ret = NoComponent]
    ELSE LET w1 == removeComponent(w, h, w.components[h][1])
         IN IF w1.result = "throw" THEN w1 ELSE removeAllLoop(w1, h)

removeAllComponents(w, h) ==
    IF ~w.has_components[h]
    THEN [w EXCEPT !.result = "throw", !.ret = NoComponent]
    ELSE removeAllLoop(w, h)

\* ------------------------------------------- construction of components
Constructed == {c \in Comps : class_name[c] # "none"}
Free(w) == {c \in Comps : w.class_name[c] = "none"}

\* the instance a `new` yields: the lowest slot not constructed yet
NextFree(w) == CHOOSE c \in Free(w) : \A d \in Free(w) : c <= d

\* new Class(d): the constructor keeps the serialized data it is given
construct(w, cls, d) ==
    [w EXCEPT !.class_name[NextFree(w)] = cls, !.data[NextFree(w)] = d]

\* component.configure(d): the instance takes the serialized data
configure(w, c, d) == [w EXCEPT !.data[c] = d]

\* component.serialize(): the serialized data of the instance
serialize(w, c) == w.data[c]

\* getObjectClassName(comp)
getObjectClassName(w, c) == w.class_name[c]

\* ----------------------------------------------------- configureComponents
\* an info is [has |-> whether info.components is set, components |-> pairs]

\* (mutation) the position of the entry is not looked at
isTransform(comp_class, i) == comp_class = "Transform"

\* comp_class == "Transform" && i == 0: the component that comes by default
isDefaultTransform(comp_class, i) == comp_class = "Transform" /\ i = 0

RECURSIVE configureLoop(_, _, _, _)
configureLoop(w, h, entries, i) ==
    IF i >= Len(entries)
    THEN [w EXCEPT !.result = "ok", !.ret = NoComponent]
    ELSE
      LET comp_info == entries[i + 1]
          comp_class == comp_info[1]
      IN IF isDefaultTransform(comp_class, i)
         THEN IF w.transform[h] = NoComponent
              THEN [w EXCEPT !.result = "throw", !.ret = NoComponent]
              ELSE configureLoop(configure(w, w.transform[h], comp_info[2]),
                                 h, entries, i + 1)
         ELSE IF comp_class \notin LSComponents
              THEN configureLoop(
                     [w EXCEPT !.log = Append(@, Event("console.error", h, NoComponent))],
                     h, entries, i + 1)
              ELSE LET comp == NextFree(w)
                   IN configureLoop(
                        addComponent(construct(w, comp_class, comp_info[2]), h, comp),
                        h, entries, i + 1)

configureComponents(w, h, info) ==
    IF info.has
    THEN configureLoop(w, h, info.components, 0)
    ELSE [w EXCEPT !.result = "ok", !.ret = NoComponent]

\* the number of instances configureComponents constructs for these entries
Instantiated(entries) ==
    Cardinality({i \in 1..Len(entries) :
                    /\ entries[i][1] \in LSComponents
                    /\ ~isDefaultTransform(entries[i][1], i - 1)})

\* ----------------------------------------------------- serializeComponents
\* (mutation) the uid is not carried into the data
serializedRaw(w, c) == serialize(w, c)

\* the data pushed for a component: serialize(), with the uid enforced
serialized(w, c) ==
    LET obj == serialize(w, c)
    IN IF w.uid[c] # 0 /\ obj.uid = 0 THEN [obj EXCEPT !.uid = w.uid[c]] ELSE obj

\* (mutation) the list is created only if absent
keepComponents(target) == target.components

\* o.components = []
resetComponents(target) == <<>>

\* the value of the target object after serializeComponents(target)
serializeComponents(w, h, target) ==
    IF ~w.has_components[h]
    THEN target
    ELSE LET with == SelectSeq(w.components[h],
                               LAMBDA c : HasSerialize(w.class_name[c]))
         IN [has |-> TRUE,
             components |-> resetComponents(target) \o
                            [i \in 1..Len(with) |->
                               <<getObjectClassName(w, with[i]), serialized(w, with[i])>>]]

\* ---------------------------------------------------------------- lookups
\* a class is named either by the class itself or by a string with its name
ClassRef(name) == [string |-> FALSE, name |-> name]
NameRef(name) == [string |-> TRUE, name |-> name]

\* component.constructor
constructorOf(w, c) == ClassRef(w.class_name[c])

hasComponent(w, h, component_class) ==
    IF ~w.has_components[h]
    THEN FALSE
    ELSE IF component_class.string
         THEN \E i \in 1..Len(w.components[h]) :
                 constructorOf(w, w.components[h][i]).name = component_class.name
         ELSE \E i \in 1..Len(w.components[h]) :
                 constructorOf(w, w.components[h][i]) = component_class

getIndexOfComponent(w, h, c) ==
    IF ~w.has_components[h] THEN -1 ELSE IndexOf(w.components[h], c)

\* constructor == component_class, or constructor.name == component_class
matches(w, c, component_class) ==
    IF component_class.string
    THEN constructorOf(w, c).name = component_class.name
    ELSE constructorOf(w, c) = component_class

\* (mutation) the search goes on after a match: the last match is returned
getComponentLast(w, h, component_class, i) ==
    LET found == {j \in (i + 1)..Len(w.components[h]) :
                     matches(w, w.components[h][j], component_class)}
    IN IF found = {}
       THEN NoComponent
       ELSE w.components[h][CHOOSE j \in found : \A k \in found : k <= j]

\* for(var i in this._components) if(...) return this._components[i];
\* return null;  (i is the zero-based key)
RECURSIVE getComponentFrom(_, _, _, _)
getComponentFrom(w, h, component_class, i) ==
    IF i >= Len(w.components[h])
    THEN NoComponent
    ELSE IF matches(w, w.components[h][i + 1], component_class)
         THEN w.components[h][i + 1]
         ELSE getComponentFrom(w, h, component_class, i + 1)

getComponent(w, h, component_class) ==
    IF ~w.has_components[h]
    THEN NoComponent
    ELSE getComponentFrom(w, h, component_class, 0)

\* ------------------------------------------------ processActionInComponents
\* the members the component classes have under the names that are broadcast:
\* update is a method of Transform and Light, enabled is a flag of Light,
\* destroy is a method of Light and Script
ActionNames == {"update", "enabled", "destroy"}
Params == {"dt"}

typeofMember(cls, action_name) ==
    CASE action_name = "update" /\ cls \in {"Transform", "Light"} -> "function"
      [] action_name = "enabled" /\ cls = "Light" -> "boolean"
      [] action_name = "destroy" /\ cls \in {"Light", "Script"} -> "function"
      [] OTHER -> "undefined"

Invoked(name, h, c, params) == [ev |-> name, host |-> h, comp |-> c, params |-> params]

\* component[action_name](params); update reads its component only, destroy
\* is function(){ this._root.removeComponent(this); }
invoke(w, h, c, action_name, params) ==
    LET w0 == [w EXCEPT !.log = Append(@, Invoked(action_name, h, c, params))]
    IN IF action_name # "destroy"
       THEN w0
       ELSE IF w0.root[c] \in Hosts
            THEN removeComponent(w0, w0.root[c], c)
            ELSE [w0 EXCEPT !.result = "throw", !.ret = NoComponent]

\* (mutation) the typeof test is left out
truthy(w, c, action_name) ==
    typeofMember(w.class_name[c], action_name) # "undefined"

\* component[action_name] && typeof(component[action_name]) == "function"
callable(w, c, action_name) ==
    /\ typeofMember(w.class_name[c], action_name) # "undefined"
    /\ typeofMember(w.class_name[c], action_name) = "function"

\* for(var i = 0; i < this._components.length; ++i) over the live array
RECURSIVE processActionFrom(_, _, _, _, _)
processActionFrom(w, h, action_name, params, i) ==
    IF i >= Len(w.components[h])
    THEN [w EXCEPT !.result = "ok", !.ret = NoComponent]
    ELSE LET c == w.components[h][i + 1]
             w1 == IF callable(w, c, action_name)
                   THEN invoke(w, h, c, action_name, params)
                   ELSE w
         IN IF w1.result = "throw"
            THEN w1
            ELSE processActionFrom(w1, h, action_name, params, i + 1)

processActionInComponents(w, h, action_name, params) ==
    IF ~w.has_components[h]
    THEN [w EXCEPT !.result = "ok", !.ret = NoComponent]
    ELSE processActionFrom(w, h, action_name, params, 0)

\* ------------------------------------------------------------ the calls
NoInfo == [has |-> FALSE, components |-> <<>>]

\* a host as its constructor leaves it: without components, or (a scene node)
\* with its default transform alone
IsFresh(h) ==
    IF transform[h] = NoComponent
    THEN ~has_components[h]
    ELSE /\ components[h] = <<transform[h]>>
         /\ data[transform[h]] = NoData
         /\ root[transform[h]] = h

NoCall ==
    [op |-> "none", host |-> "none", arg |-> NoComponent, info |-> NoInfo,
     result |-> "none", ret |-> NoComponent, before |-> <<>>, defined |-> FALSE,
     fresh |-> FALSE, existed |-> {}, uids |-> [c \in Comps |-> 0],
     target |-> NoInfo, ref |-> NameRef("none"), member |-> "none",
     params |-> "none", log |-> <<>>]

Call(op, h, c, info, w) ==
    [op |-> op, host |-> h, arg |-> c, info |-> info,
     result |-> w.result, ret |-> w.ret,
     before |-> components[h], defined |-> has_components[h],
     fresh |-> IsFresh(h), existed |-> Constructed, uids |-> uid,
     target |-> NoInfo, ref |-> NameRef("none"), member |-> "none",
     params |-> "none", log |-> w.log]

Commit(w) ==
    /\ components' = w.components
    /\ has_components' = w.has_components
    /\ transform' = w.transform
    /\ class_name' = w.class_name
    /\ root' = w.root
    /\ uid' = w.uid
    /\ data' = w.data
    /\ last_uid' = w.last_uid
    /\ calls' = calls + 1

\* ----------------------------------------------------------------- Init
Init ==
    /\ components = [h \in Hosts |-> <<>>]
    /\ has_components = [h \in Hosts |-> FALSE]
    /\ transform = [h \in Hosts |-> NoComponent]
    /\ class_name = [c \in Comps |-> IF c <= Len(ExternalComponents)
                                    THEN ExternalComponents[c].cls ELSE "none"]
    /\ root = [c \in Comps |-> "undefined"]
    /\ uid = [c \in Comps |-> 0]
    /\ data = [c \in Comps |-> IF c <= Len(ExternalComponents)
                              THEN ExternalComponents[c].data ELSE NoData]
    /\ last_uid = 0
    /\ o = NoInfo
    /\ calls = 0
    /\ last = NoCall

\* -------------------------------------------------------------- actions
\* the constructor of a scene node: the host gets its default transform
sceneNode(w, h) ==
    addComponent([construct(w, "Transform", NoData) EXCEPT !.transform[h] = NextFree(w)],
                 h, NextFree(w))

SceneNode(h) ==
    /\ calls < MaxCalls
    /\ ~has_components[h] /\ transform[h] = NoComponent
    /\ Free(World) # {}
    /\ LET w == sceneNode(World, h)
       IN /\ Commit(w)
          /\ last' = Call("SceneNode", h, NextFree(World), NoInfo, w)
    /\ UNCHANGED o

AddComponent(h, c) ==
    /\ calls < MaxCalls
    /\ LET w == addComponent(World, h, c)
       IN /\ Commit(w)
          /\ last' = Call("addComponent", h, c, NoInfo, w)
    /\ UNCHANGED o

RemoveComponent(h, c) ==
    /\ calls < MaxCalls
    /\ LET w == removeComponent(World, h, c)
       IN /\ Commit(w)
          /\ last' = Call("removeComponent", h, c, NoInfo, w)
    /\ UNCHANGED o

RemoveAllComponents(h) ==
    /\ calls < MaxCalls
    /\ LET w == removeAllComponents(World, h)
       IN /\ Commit(w)
          /\ last' = Call("removeAllComponents", h, NoComponent, NoInfo, w)
    /\ UNCHANGED o

ConfigureComponents(h, info) ==
    /\ calls < MaxCalls
    /\ Instantiated(info.components) <= Cardinality(Free(World))
    /\ LET w == configureComponents(World, h, info)
       IN /\ Commit(w)
          /\ last' = Call("configureComponents", h, NoComponent, info, w)
    /\ UNCHANGED o

\* the objects handed to serializeComponents: an empty one, the one written
\* by the call before, and one that already holds a pair
PriorTarget == [has |-> TRUE, components |-> <<<<"Script", NoData>>>>]
Targets == {NoInfo, PriorTarget, o}

SerializeComponents(h, target) ==
    /\ calls < MaxCalls
    /\ o' = serializeComponents(World, h, target)
    /\ Commit(World)
    /\ last' = [Call("serializeComponents", h, NoComponent, NoInfo,
                     [World EXCEPT !.result = "ok"]) EXCEPT !.target = target]

GetComponent(h, component_class) ==
    /\ calls < MaxCalls
    /\ LET w == [World EXCEPT !.result = "ok",
                              !.ret = getComponent(World, h, component_class)]
       IN /\ Commit(w)
          /\ last' = [Call("getComponent", h, NoComponent, NoInfo, w)
                         EXCEPT !.ref = component_class]
    /\ UNCHANGED o

ProcessActionInComponents(h, action_name, params) ==
    /\ calls < MaxCalls
    /\ LET w == processActionInComponents(World, h, action_name, params)
       IN /\ Commit(w)
          /\ last' = [Call("processActionInComponents", h, NoComponent, NoInfo, w)
                         EXCEPT !.member = action_name, !.params = params]
    /\ UNCHANGED o

\* the infos written by hand: up to MaxEntries pairs, or no components field
InfoClasses == {"Transform", "Light", "Ghost"}
InfoEntries == {<<cls, [val |-> MaxVal, uid |-> 0]>> : cls \in InfoClasses}
InfoInputs ==
    {NoInfo} \cup
    {[has |-> TRUE, components |-> s] :
        s \in UNION {[1..n -> InfoEntries] : n \in 0..MaxEntries}}

Next ==
    \/ \E h \in Hosts : SceneNode(h)
    \/ \E h \in Hosts, c \in Constructed \cup {NoComponent} : AddComponent(h, c)
    \/ \E h \in Hosts, c \in Constructed \cup {NoComponent} : RemoveComponent(h, c)
    \/ \E h \in Hosts : RemoveAllComponents(h)
    \/ \E h \in Hosts, info \in InfoInputs \cup {o} : ConfigureComponents(h, info)
    \/ \E h \in Hosts, target \in Targets : SerializeComponents(h, target)

Spec == Init /\ [][Next]_vars

\* the lookups and the broadcast, on hosts filled by addComponent and by a
\* configureComponents of two more Lights
LightInfo ==
    [has |-> TRUE,
     components |-> [i \in 1..2 |-> <<"Light", [val |-> MaxVal, uid |-> 0]>>]]
Refs == {ClassRef("Light"), NameRef("Light"), NameRef("Script"), NameRef("Ghost")}

NextLookup ==
    \/ \E h \in Hosts, c \in Constructed : AddComponent(h, c)
    \/ \E h \in Hosts, c \in Constructed : RemoveComponent(h, c)
    \/ \E h \in Hosts : ConfigureComponents(h, LightInfo)
    \/ \E h \in Hosts, component_class \in Refs : GetComponent(h, component_class)
    \/ \E h \in Hosts, action_name \in ActionNames, params \in Params :
          ProcessActionInComponents(h, action_name, params)

SpecLookup == Init /\ [][NextLookup]_vars

\* ================================================================ claims
Member(s, c) == \E i \in 1..Len(s) : s[i] = c
Without(s, c) == SelectSeq(s, LAMBDA x : x # c)
LogOf(name) == SelectSeq(last.log, LAMBDA e : e.ev = name)

\* C1 (as claimed): no component instance is in the collections of two
\* different hosts at the same time, and addComponent(c) on a host while c
\* is attached to another host fails instead of attaching it.
C1_SingleHost ==
    /\ \A c \in Comps : \A g, h \in Hosts :
          Member(components[g], c) /\ Member(components[h], c) => g = h
    /\ (/\ last.op = "addComponent"
        /\ last.arg # NoComponent
        /\ \E g \in Hosts \ {last.host} : Member(components[g], last.arg))
       => last.result = "throw"

\* C2: addComponent(c) on a host whose collection already contains c throws
\* and leaves the collection as it was; no collection ever holds the same
\* instance at two positions.
C2_DuplicateAttachment ==
    /\ (/\ last.op = "addComponent"
        /\ last.arg # NoComponent
        /\ Member(last.before, last.arg))
       => /\ last.result = "throw"
          /\ components[last.host] = last.before
    /\ \A h \in Hosts : \A i, j \in 1..Len(components[h]) :
          components[h][i] = components[h][j] => i = j

C2_Witness ==
    /\ last.op = "addComponent"
    /\ Member(last.before, last.arg)
    /\ Len(last.before) >= 2
    /\ last.result = "throw"

\* C3: for a non-null component c not in the host's collection,
\* addComponent(c) returns c; c is then the last element, at the index of
\* the previous length, the components attached before keep their places,
\* c's _root is the host and hasComponent finds c's class, by class and by name.
C3_AddAppends ==
    (/\ last.op = "addComponent"
     /\ last.arg # NoComponent
     /\ ~Member(last.before, last.arg))
    => /\ last.result = "ok"
       /\ last.ret = last.arg
       /\ components[last.host] = Append(last.before, last.arg)
       /\ getIndexOfComponent(World, last.host, last.arg) = Len(last.before)
       /\ root[last.arg] = last.host
       /\ hasComponent(World, last.host, ClassRef(class_name[last.arg]))
       /\ hasComponent(World, last.host, NameRef(class_name[last.arg]))

C3_Witness ==
    /\ last.op = "addComponent"
    /\ last.arg # NoComponent
    /\ ~Member(last.before, last.arg)
    /\ Len(last.before) >= 2
    /\ last.result = "ok"

\* C4: for a component c of the host's collection, after removeComponent(c)
\* getIndexOfComponent(c) is -1, c's _root is null, the collection is
\* shorter by one and the other components keep their relative order.
C4_RemoveDetaches ==
    (/\ last.op = "removeComponent"
     /\ last.arg # NoComponent
     /\ Member(last.before, last.arg))
    => /\ getIndexOfComponent(World, last.host, last.arg) = -1
       /\ root[last.arg] = "null"
       /\ Len(components[last.host]) = Len(last.before) - 1
       /\ components[last.host] = Without(last.before, last.arg)

C4_Witness ==
    /\ last.op = "removeComponent"
    /\ Len(last.before) >= 3
    /\ last.before[2] = last.arg
    /\ last.result = "ok"

\* C5 (as claimed): removeComponent(c) with a non-null c that is not in the
\* host's collection completes without raising and leaves the collection
\* unchanged, also on a host to which no component was ever attached.
C5_RemoveAbsentIsNoOp ==
    (/\ last.op = "removeComponent"
     /\ last.arg # NoComponent
     /\ ~Member(last.before, last.arg))
    => /\ last.result = "ok"
       /\ components[last.host] = last.before
       /\ has_components[last.host] = last.defined
\* C6: a component gets its uid on its first successful attachment, from one
\* call of the id generator; from then on the uid has the same value in
\* every later state and the generator is not called for it again.
\* (last.uids holds the uids before the last call, so this compares the two
\* states of every step.)
Generated(log, c) ==
    Len(SelectSeq(log, LAMBDA e : e.ev = "generateUId" /\ e.comp = c))

C6_UIdStable ==
    \A c \in Comps :
       /\ (\E h \in Hosts : Member(components[h], c)) => uid[c] # 0
       /\ last.uids[c] # 0 => uid[c] = last.uids[c] /\ Generated(last.log, c) = 0
       /\ last.uids[c] = 0 =>
            IF \E h \in Hosts : Member(components[h], c)
            THEN uid[c] # 0 /\ Generated(last.log, c) = 1
            ELSE uid[c] = 0 /\ Generated(last.log, c) = 0

\* a component that had its uid, and is attached nowhere, is attached again
C6_Witness ==
    /\ last.op = "addComponent"
    /\ last.arg # NoComponent
    /\ last.result = "ok"
    /\ last.uids[last.arg] # 0
    /\ \A h \in Hosts \ {last.host} : ~Member(components[h], last.arg)

\* C7 (as claimed): removeAllComponents() ends with an empty collection,
\* having called onRemovedFromNode once on each component that was attached
\* and has the hook, in attachment order, and cleared the _root of each.
C7_RemoveAll ==
    last.op = "removeAllComponents" =>
       LET hooked == SelectSeq(last.before,
                               LAMBDA c : HasOnRemovedFromNode(class_name[c]))
       IN /\ last.result = "ok"
          /\ components[last.host] = <<>>
          /\ LogOf("onRemovedFromNode") =
                [i \in 1..Len(hooked) |-> Event("onRemovedFromNode", last.host, hooked[i])]
          /\ \A i \in 1..Len(last.before) : root[last.before[i]] = "null"

\* what holds of removeAllComponents() on a host whose _components exists
RemoveAllOnDefined == last.defined => C7_RemoveAll

\* C8: addComponent(null) and removeComponent(null) report an error and
\* change nothing: no collection, no _root, no uid; no hook is called, the
\* event bus is not called.
C8_NullArgument ==
    [][(last'.op \in {"addComponent", "removeComponent"} /\ last'.arg = NoComponent)
       => /\ last'.result = "error"
          /\ last'.log = <<Event("console.error", last'.host, NoComponent)>>
          /\ UNCHANGED <<components, has_components, transform, class_name,
                         root, uid, data, last_uid, o>>]_vars

C8_Witness ==
    /\ last.op \in {"addComponent", "removeComponent"}
    /\ last.arg = NoComponent
    /\ last.result = "error"
    /\ Len(components[last.host]) >= 2

\* C9 (as claimed): when every component of a host g is serializable and of
\* a registered class, configureComponents on a fresh host of g's type, given
\* what serializeComponents writes for g, yields a collection with the same
\* class names and the same data in the same order as g's.
NamesOf(h) == [i \in 1..Len(components[h]) |-> class_name[components[h][i]]]
Serialization(h) == serializeComponents(World, h, NoInfo).components
SameType(g, h) == (transform[g] = NoComponent) <=> (transform[h] = NoComponent)

C9_RoundTrip ==
    \A g \in Hosts :
       (/\ last.op = "configureComponents"
        /\ last.fresh
        /\ g # last.host
        /\ SameType(g, last.host)
        /\ \A i \in 1..Len(components[g]) :
              /\ HasSerialize(class_name[components[g][i]])
              /\ class_name[components[g][i]] \in LSComponents
        /\ last.info.components = Serialization(g))
       => /\ last.result = "ok"
          /\ NamesOf(last.host) = NamesOf(g)
          /\ Serialization(last.host) = Serialization(g)

\* C10 (as claimed): configureComponents(info) reports and skips every entry
\* of an unknown class and processes all the others: the components it
\* attaches are one new instance per registered entry (a Transform entry at
\* position 0 aside), in the order of the entries.
C10_UnknownSkipped ==
    last.op = "configureComponents" =>
       LET entries == last.info.components
           made == SelectSeq([i \in 1..Len(entries) |-> <<i, entries[i]>>],
                             LAMBDA e : /\ e[2][1] \in LSComponents
                                        /\ ~(e[2][1] = "Transform" /\ e[1] = 1))
           unknown == {i \in 1..Len(entries) :
                          /\ entries[i][1] \notin LSComponents
                          /\ ~(entries[i][1] = "Transform" /\ i = 1)}
           now == components[last.host]
           n == Len(last.before)
       IN /\ Len(LogOf("console.error")) = Cardinality(unknown)
          /\ Len(now) = n + Len(made)
          /\ \A i \in 1..n : now[i] = last.before[i]
          /\ \A i \in 1..Len(made) :
                /\ now[n + i] \notin last.existed
                /\ class_name[now[n + i]] = made[i][2][1]
          /\ \A i, j \in 1..Len(now) : now[i] = now[j] => i = j
\* C11: in configureComponents a Transform entry at position 0 configures the
\* transform the host already has, in place, and attaches nothing; a
\* Transform entry at any other position is looked up in the registry,
\* constructed with its data and attached like an entry of any other class.
C11_TransformEntry ==
    LET entries == last.info.components
        now == components[last.host]
        first == Len(entries) >= 1 /\ entries[1][1] = "Transform"
        \* the entries after a Transform at position 0
        rest == IF first THEN Tail(entries) ELSE entries
        made == SelectSeq(rest, LAMBDA e : e[1] \in LSComponents)
        n == Len(last.before)
    IN (/\ last.op = "configureComponents"
        /\ last.info.has
        /\ first => transform[last.host] # NoComponent)
       => /\ last.result = "ok"
          /\ first => /\ data[transform[last.host]] = entries[1][2]
                      /\ transform[last.host] \in last.existed
                      /\ class_name[transform[last.host]] = "Transform"
          /\ Len(now) = n + Len(made)
          /\ SubSeq(now, 1, n) = last.before
          /\ \A i \in 1..Len(made) :
                /\ now[n + i] \notin last.existed
                /\ class_name[now[n + i]] = made[i][1]
                /\ data[now[n + i]] = made[i][2]
                /\ root[now[n + i]] = last.host

\* a Transform entry at position 0 and another one after it
C11_Witness ==
    /\ last.op = "configureComponents"
    /\ transform[last.host] # NoComponent
    /\ Len(last.info.components) >= 2
    /\ last.info.components[1][1] = "Transform"
    /\ last.info.components[2][1] = "Transform"
    /\ last.result = "ok"
    /\ Len(components[last.host]) = Len(last.before) + 1
\* C12: serializeComponents(target) emits one [class_name, data] pair for each
\* attached component that has serialize, in attachment order, and none for
\* the others; the data carries the component's uid whenever the component
\* has one and the data serialize returned had none.
Serializable(h) ==
    SelectSeq(components[h], LAMBDA c : HasSerialize(class_name[c]))

C12_SerializedPairs ==
    last.op = "serializeComponents" =>
       LET with == Serializable(last.host)
           n == Len(with)
           m == Len(o.components)
           emitted == IF last.defined
                      THEN SubSeq(o.components, m - n + 1, m)
                      ELSE <<>>
       IN /\ last.defined => o.has /\ m >= n
          /\ Len(emitted) = (IF last.defined THEN n ELSE 0)
          /\ \A i \in 1..Len(emitted) :
                /\ emitted[i][1] = class_name[with[i]]
                /\ emitted[i][2].val = data[with[i]].val
                /\ emitted[i][2].uid = (IF data[with[i]].uid # 0
                                        THEN data[with[i]].uid
                                        ELSE uid[with[i]])

\* two components with serialize and one without, the data of the two
\* holding no uid of its own
C12_Witness ==
    /\ last.op = "serializeComponents"
    /\ Len(components[last.host]) >= 3
    /\ \E c \in Comps : Member(components[last.host], c) /\ ~HasSerialize(class_name[c])
    /\ Len(o.components) = 2
    /\ \A i \in 1..2 : o.components[i][2].uid # 0

\* C13 (as claimed): serializeComponents(target) appends to target.components:
\* the entries the list held before the call are still there, in their order,
\* before the pairs the call adds.
C13_TargetKept ==
    last.op = "serializeComponents" =>
       /\ Len(o.components) >= Len(last.target.components)
       /\ SubSeq(o.components, 1, Len(last.target.components)) = last.target.components

\* C13 (amended): when the host has a collection, serializeComponents(target)
\* replaces target.components by a new list that holds the pairs of this call
\* only; when the host has none, the target is left as it was.
C13_TargetReplaced ==
    last.op = "serializeComponents" =>
       IF last.defined
       THEN o.has /\ Len(o.components) = Len(Serializable(last.host))
       ELSE o = last.target

\* a target that held pairs is written again, with fewer pairs
C13_Witness ==
    /\ last.op = "serializeComponents"
    /\ last.defined
    /\ Len(last.target.components) >= 1
    /\ Len(o.components) < Len(last.target.components)
\* C16 (as claimed): a component is in the collection of host h if and only
\* if its _root is h; so a removeComponent(c) on a host that does not hold c
\* leaves the _root of a c attached elsewhere as it is.  Stated on the states
\* where no instance is in two collections, the sharing being C1's matter.
Shared(c) == \E g, h \in Hosts : g # h /\ Member(components[g], c) /\ Member(components[h], c)

C16_BackReference ==
    \A c \in Comps : ~Shared(c) =>
        \A h \in Hosts : Member(components[h], c) <=> root[c] = h

\* C17 (as claimed): onAddedToNode is invoked once by an addComponent that
\* attaches and not at all by one that fails as a duplicate; onRemovedFromNode
\* and LEvent.unbindAll are invoked once by a removeComponent that detaches
\* and not at all by one whose component the host does not hold.
C17_HookPairing ==
    LET c == last.arg
        added == Len(LogOf("onAddedToNode"))
        removed == Len(LogOf("onRemovedFromNode"))
        unbound == Len(LogOf("unbindAll"))
        held == Member(last.before, c)
    IN /\ (last.op = "addComponent" /\ c # NoComponent) =>
             /\ removed = 0
             /\ unbound = 0
             /\ added = (IF ~held /\ HasOnAddedToNode(class_name[c]) THEN 1 ELSE 0)
       /\ (last.op = "removeComponent" /\ c # NoComponent) =>
             /\ added = 0
             /\ unbound = (IF held THEN 1 ELSE 0)
             /\ removed = (IF held /\ HasOnRemovedFromNode(class_name[c]) THEN 1 ELSE 0)
\* C15: getComponent(classOrName) returns the attached component of lowest
\* index whose class (or class name) matches and none when there is no match;
\* hasComponent(classOrName) is true exactly when getComponent(classOrName)
\* returns a component, on every host, one without a collection included.
AllRefs == {ClassRef(n) : n \in ClassNames} \cup {NameRef(n) : n \in ClassNames}

InvokedOn(name, h, params) ==
    LET with == SelectSeq(components[h],
                          LAMBDA c : typeofMember(class_name[c], name) = "function")
    IN [i \in 1..Len(with) |-> Invoked(name, h, with[i], params)]

C14_Broadcast ==
    (last.op = "processActionInComponents" /\ last.member # "destroy") =>
       /\ last.result = "ok"
       /\ components[last.host] = last.before
       /\ last.log = InvokedOn(last.member, last.host, last.params)

\* a broadcast that has invoked two components and passed over a third
C14_Witness ==
    /\ last.op = "processActionInComponents"
    /\ last.member = "update"
    /\ Len(last.log) = 2
    /\ Len(components[last.host]) = 3

\* C18 (as claimed): when the member invoked by processActionInComponents
\* removes its component from the host, every component that is attached when
\* the broadcast ends and has the member callable has been invoked once.
C18_ReentrantBroadcast ==
    (last.op = "processActionInComponents" /\ last.result = "ok") =>
       \A i \in 1..Len(components[last.host]) :
          LET c == components[last.host][i]
          IN typeofMember(class_name[c], last.member) = "function" =>
                Len(SelectSeq(last.log,
                               LAMBDA e : e.ev = last.member /\ e.comp = c)) = 1
====
